---------------------------- MODULE Spec2Model ----------------------------
(***************************************************************************)
(* A model of Obsidian_OCR.py: the reference extractor, the attachment     *)
(* resolver, the recognition adapter (perform_ocr with its path-correction *)
(* retry and its cleaning chain), the front-matter merger                  *)
(* (update_markdown_file) and the two nested thread pools                  *)
(* (process_markdown_file, main).                                          *)
(*                                                                         *)
(* Text is a sequence of one-character strings, so that every string       *)
(* operation of the source (strip, replace, split, join, "in", the three   *)
(* regular expressions and re.sub's replacement template) is computed      *)
(* character by character as Python computes it.  Characters that cannot   *)
(* be written in a TLA+ string are named by their code point, e.g.         *)
(* "U+1F4CE" for the paperclip of ATTACHMENT_FOLDER.                       *)
(***************************************************************************)
EXTENDS Naturals, Sequences, FiniteSets, TLC

VARIABLES
    md_path,    \* the path of the document being processed (md_file)
    file,       \* the text stored in md_file
    file0,      \* history: the text md_file held before processing
    tasks,      \* the inner pool's futures, one per image link, in submit order
    ocr_texts,  \* process_markdown_file's list ocr_texts
    yielded,    \* the futures as_completed has already yielded
    pc,         \* where process_markdown_file / update_markdown_file stands
    ocr_text,   \* the aggregated text handed to update_markdown_file
    merges,     \* history: the text md_file held after each update_markdown_file
    vault,      \* main: the text of every listed document
    fut,        \* main: the state of each future executor.map submitted
    main_pc,    \* main: where the main thread stands
    main_i      \* main: the index the result iterator (or its cancel loop) is at

vars == <<md_path, file, file0, tasks, ocr_texts, yielded, pc, ocr_text, merges,
          vault, fut, main_pc, main_i>>

docVars == <<md_path, file, file0, ocr_texts, yielded, pc, ocr_text, merges>>
runVars == <<vault, fut, main_pc, main_i>>

\* the document-level variables of a run that processes no document
IdleDoc ==
    /\ md_path = <<>>
    /\ file = <<>>
    /\ file0 = <<>>
    /\ ocr_texts = <<>>
    /\ yielded = {}
    /\ pc = "idle"
    /\ ocr_text = <<>>
    /\ merges = <<>>

\* main's variables in a run without main
IdleRun ==
    /\ vault = <<>>
    /\ fut = <<>>
    /\ main_pc = "idle"
    /\ main_i = 0

-----------------------------------------------------------------------------
(* Bounds of the model *)

\* the longest raw recognition output, in characters (SpecClean)
MaxRawLen == 3
\* the longest resolved path, in pieces of PathPieces (SpecOcr)
MaxPathPieces == 4
\* the longest document handed to update_markdown_file, in pieces of
\* MergePieces (SpecMerge)
MaxMergePieces == 4
\* the longest raw text behind a merged text, in characters (SpecMerge)
MaxMergeRawLen == 2
\* the most image links a document holds (Spec)
MaxLinks == 2
\* the number of documents main lists (SpecRun)
MaxDocs == 6
\* the most listed documents with a block update_markdown_file raises on
\* (SpecRun)
MaxBadDocs == 1

-----------------------------------------------------------------------------
(* Sequences of characters *)

SeqsUpTo(S, n) == UNION {[1..k -> S] : k \in 0..n}

RECURSIVE Flatten(_)
Flatten(ss) == IF ss = <<>> THEN <<>> ELSE Head(ss) \o Flatten(Tail(ss))

\* p occurs in s starting at index i
OccursAt(s, i, p) ==
    /\ i >= 1
    /\ i + Len(p) - 1 <= Len(s)
    /\ \A k \in 1..Len(p) : s[i + k - 1] = p[k]

\* Python's  p in s
Contains(s, p) == \E i \in 1..(Len(s) + 1) : OccursAt(s, i, p)

\* the least index >= from at which p occurs in s, or 0
RECURSIVE Find(_, _, _)
Find(s, p, from) ==
    IF from + Len(p) - 1 > Len(s) THEN 0
    ELSE IF OccursAt(s, from, p) THEN from
    ELSE Find(s, p, from + 1)

\* Python's  s[i-1 : j]  on 1-based inclusive indices
Slice(s, i, j) == IF j < i THEN <<>> ELSE SubSeq(s, i, j)

\* Python's  s.replace(old, new): non-overlapping occurrences, left to right,
\* one pass
RECURSIVE ReplaceFrom(_, _, _, _)
ReplaceFrom(s, i, old, new) ==
    IF i > Len(s) THEN <<>>
    ELSE IF OccursAt(s, i, old) THEN new \o ReplaceFrom(s, i + Len(old), old, new)
    ELSE <<s[i]>> \o ReplaceFrom(s, i + 1, old, new)

Replace(s, old, new) == ReplaceFrom(s, 1, old, new)

\* the characters str.strip() removes and the regular expression \s matches
Whitespace == {" ", "\t", "\n", "\r", "\f", "U+000B"}

RECURSIVE LStrip(_)
LStrip(s) == IF s # <<>> /\ Head(s) \in Whitespace THEN LStrip(Tail(s)) ELSE s

RECURSIVE RStrip(_)
RStrip(s) ==
    IF s # <<>> /\ s[Len(s)] \in Whitespace THEN RStrip(SubSeq(s, 1, Len(s) - 1))
    ELSE s

\* Python's  s.strip()
Strip(s) == RStrip(LStrip(s))

\* Python's  s.split(c)  for a one-character separator
RECURSIVE SplitFrom(_, _, _, _)
SplitFrom(s, i, cur, c) ==
    IF i > Len(s) THEN <<cur>>
    ELSE IF s[i] = c THEN <<cur>> \o SplitFrom(s, i + 1, <<>>, c)
    ELSE SplitFrom(s, i + 1, Append(cur, s[i]), c)

Split(s, c) == SplitFrom(s, 1, <<>>, c)

\* Python's  c.join(parts)
RECURSIVE Join(_, _)
Join(parts, c) ==
    IF parts = <<>> THEN <<>>
    ELSE IF Len(parts) = 1 THEN parts[1]
    ELSE parts[1] \o <<c>> \o Join(Tail(parts), c)

-----------------------------------------------------------------------------
(* perform_ocr: the cleaning chain and the path-correction retry *)

\* os.sep
Sep == "/"

\* the literal '.resources'
ResourcesMarker == <<".", "r", "e", "s", "o", "u", "r", "c", "e", "s">>

\* a plausible slip: only the first '.resources' segment is dropped
modify_image_path_first(image_path) ==
    LET parts == Split(image_path, Sep)
        hit   == {k \in 1..Len(parts) : Contains(parts[k], ResourcesMarker)}
        first == CHOOSE k \in hit : \A j \in hit : k <= j
    IN  IF hit = {} THEN image_path
        ELSE Join(SubSeq(parts, 1, first - 1) \o SubSeq(parts, first + 1, Len(parts)), Sep)

modify_image_path(image_path) ==
    LET path_parts     == Split(image_path, Sep)
        modified_parts == SelectSeq(path_parts, LAMBDA part : ~Contains(part, ResourcesMarker))
    IN  Join(modified_parts, Sep)

\* the chain of line 128, applied to the engine's raw output
Clean(raw) ==
    LET s1 == Strip(raw)
        s2 == Replace(s1, <<"\n">>, <<" ">>)
        s3 == Replace(s2, <<"\r">>, <<>>)
        s4 == Replace(s3, <<"\t">>, <<" ">>)
        s5 == Replace(s4, <<" ", " ">>, <<" ">>)
        s6 == Replace(s5, <<"\"">>, <<"'">>)
    IN  Replace(s6, <<"\\">>, <<"\\", "\\">>)

\* a function's return value: a text, or None
Some(t) == [none |-> FALSE, text |-> t]
None == [none |-> TRUE, text |-> <<>>]

\* a future of the inner pool running perform_ocr(path):
\*   st     pending | running | done
\*   path   the image_path of the perform_ocr frame now running
\*   calls  history: every invocation of image_to_string, with its outcome
\*   raw    history: the raw text the engine returned, if it returned one
\*   ret    the value perform_ocr returned
NewTask(path, st) ==
    [st |-> st, path |-> path, calls |-> <<>>, raw |-> <<>>, ret |-> None]

\* the except clause's test of line 130; the outcome "notfound" is an
\* exception whose message holds 'No such file or directory', "error" is
\* any other exception
RetryCondition(e, image_path) ==
    e = "notfound" /\ Contains(image_path, ResourcesMarker)

\* lines 127-128: the engine returns raw text r, which is cleaned and returned
OcrReturnText(RawOutputs) ==
    /\ \E i \in DOMAIN tasks :
         /\ tasks[i].st = "running"
         /\ \E r \in RawOutputs :
              tasks' = [tasks EXCEPT ![i] =
                          [@ EXCEPT !.calls = Append(@, [path |-> tasks[i].path, out |-> "text"]),
                                    !.raw = r,
                                    !.ret = Some(Clean(r)),
                                    !.st = "done"]]
    /\ UNCHANGED <<docVars, runVars>>

\* lines 129-131: the invocation raised "No such file or directory" on a path
\* holding '.resources'; perform_ocr calls itself on the modified path
OcrRetry ==
    /\ \E i \in DOMAIN tasks :
         /\ tasks[i].st = "running"
         /\ RetryCondition("notfound", tasks[i].path)
         /\ tasks' = [tasks EXCEPT ![i] =
                        [@ EXCEPT !.calls = Append(@, [path |-> tasks[i].path, out |-> "notfound"]),
                                  !.path = modify_image_path(tasks[i].path)]]
    /\ UNCHANGED <<docVars, runVars>>

\* lines 132-134: any other failure is printed and None is returned
OcrGiveUp ==
    /\ \E i \in DOMAIN tasks :
         /\ tasks[i].st = "running"
         /\ \E e \in {"notfound", "error"} :
              /\ ~RetryCondition(e, tasks[i].path)
              /\ tasks' = [tasks EXCEPT ![i] =
                             [@ EXCEPT !.calls = Append(@, [path |-> tasks[i].path, out |-> e]),
                                       !.ret = None,
                                       !.st = "done"]]
    /\ UNCHANGED <<docVars, runVars>>

-----------------------------------------------------------------------------
(* update_markdown_file: the front-matter merger *)

\* the literal 'OCR:' (the field's key, and the marker of line 70)
OcrKey == <<"O", "C", "R", ":">>

Dashes == <<"-", "-", "-">>
\* the regular expression's opening  ^---\n  and closing  \n---
FmOpen == Dashes \o <<"\n">>
FmClose == <<"\n">> \o Dashes

Quote == "\""

\* re.search(r'^---\n(.*?)\n---', existing_content, re.DOTALL): ^ matches at
\* the start of the text only, the lazy group ends at the first '\n---' that
\* follows the opening.  last is the index of the match's last character.
FrontMatterMatch(content) ==
    LET j == IF OccursAt(content, 1, FmOpen)
             THEN Find(content, FmClose, Len(FmOpen) + 1) ELSE 0
    IN  IF j = 0
        THEN [matched |-> FALSE, group1 |-> <<>>, last |-> 0]
        ELSE [matched |-> TRUE,
              group1 |-> Slice(content, Len(FmOpen) + 1, j - 1),
              last |-> j + Len(FmClose) - 1]

\* the least index >= i of a character that is not whitespace (Len(s)+1 if none)
RECURSIVE SkipWhitespace(_, _)
SkipWhitespace(s, i) ==
    IF i <= Len(s) /\ s[i] \in Whitespace THEN SkipWhitespace(s, i + 1) ELSE i

\* a match of  (OCR:\s*").*(")  starting at index i: the key, the whitespace
\* after it, an opening quote, then  .*  (greedy, no newline) up to the last
\* quote of the line.  open and close are the quotes' indices; close = 0 is
\* no match.
OcrFieldMatchAt(s, i) ==
    LET k == SkipWhitespace(s, i + Len(OcrKey))
        nl == Find(s, <<"\n">>, k + 1)
        lineEnd == IF nl = 0 THEN Len(s) ELSE nl - 1
        quotes == {q \in (k + 1)..lineEnd : s[q] = Quote}
    IN  IF OccursAt(s, i, OcrKey) /\ k <= Len(s) /\ s[k] = Quote /\ quotes # {}
        THEN [open |-> k, close |-> CHOOSE q \in quotes : \A r \in quotes : r <= q]
        ELSE [open |-> 0, close |-> 0]

\* re.sub(r'(OCR:\s*").*(")', lambda match: match.group(1) + ocr_text +
\* match.group(2), front_matter): every non-overlapping match, left to right;
\* the replacement is a function, so ocr_text is inserted as it is
RECURSIVE SubOcrFieldFrom(_, _, _)
SubOcrFieldFrom(s, i, text) ==
    IF i > Len(s) THEN <<>>
    ELSE LET m == OcrFieldMatchAt(s, i) IN
         IF m.close # 0
         THEN Slice(s, i, m.open) \o text \o <<Quote>> \o SubOcrFieldFrom(s, m.close + 1, text)
         ELSE <<s[i]>> \o SubOcrFieldFrom(s, i + 1, text)

SubOcrField(front_matter, text) == SubOcrFieldFrom(front_matter, 1, text)

AsciiLetters ==
    {"a", "b", "c", "d", "e", "f", "g", "h", "i", "j", "k", "l", "m", "n", "o", "p", "q",
     "r", "s", "t", "u", "v", "w", "x", "y", "z",
     "A", "B", "C", "D", "E", "F", "G", "H", "I", "J", "K", "L", "M", "N", "O", "P", "Q",
     "R", "S", "T", "U", "V", "W", "X", "Y", "Z"}

\* the escapes a replacement template knows (sre_parse.ESCAPES)
TemplateEscape ==
    [c \in {"\\", "n", "r", "t", "f", "a", "b", "v"} |->
        CASE c = "\\" -> "\\"
          [] c = "n" -> "\n"
          [] c = "r" -> "\r"
          [] c = "t" -> "\t"
          [] c = "f" -> "\f"
          [] c = "a" -> "U+0007"
          [] c = "b" -> "U+0008"
          [] c = "v" -> "U+000B"]

\* What re.sub does to a replacement given as a string (line 183): a backslash
\* and the character after it are an escape.  A known escape is replaced by
\* its character, a backslash before another ASCII letter or at the end of the
\* template raises re.error, a backslash before any other character stays.
\* (Digits and 'g', the group references, are not in the model's alphabet.)
RECURSIVE ExpandTemplateFrom(_, _)
ExpandTemplateFrom(t, i) ==
    IF i > Len(t) THEN [ok |-> TRUE, text |-> <<>>]
    ELSE IF t[i] # "\\"
    THEN LET rest == ExpandTemplateFrom(t, i + 1)
         IN  [ok |-> rest.ok, text |-> <<t[i]>> \o rest.text]
    ELSE IF i = Len(t) THEN [ok |-> FALSE, text |-> <<>>]
    ELSE LET c == t[i + 1]
             rest == ExpandTemplateFrom(t, i + 2)
         IN  IF c \in DOMAIN TemplateEscape
             THEN [ok |-> rest.ok, text |-> <<TemplateEscape[c]>> \o rest.text]
             ELSE IF c \in AsciiLetters THEN [ok |-> FALSE, text |-> <<>>]
             ELSE [ok |-> rest.ok, text |-> <<"\\", c>> \o rest.text]

ExpandTemplate(t) ==
    LET r == ExpandTemplateFrom(t, 1)
    IN  IF r.ok THEN r ELSE [ok |-> FALSE, text |-> <<>>]

\* the new field line of lines 180 and 186:  OCR: "<ocr_text>"
OcrFieldLine(text) == OcrKey \o <<" ", Quote>> \o text \o <<Quote>>

\* a plausible slip: without a metadata block, the new block is put after the
\* document's text instead of before it
UpdatedContentBlockLast(existing_content, text) ==
    IF FrontMatterMatch(existing_content).matched
    THEN [ok |-> FALSE, text |-> <<>>]
    ELSE [ok |-> TRUE,
          text |-> existing_content \o FmOpen \o OcrFieldLine(text) \o <<"\n">> \o Dashes
                   \o <<"\n">>]

\* lines 164-187: the text update_markdown_file writes for existing_content
\* and ocr_text, or ok = FALSE when re.sub raises re.error (nothing is written)
UpdatedContent(existing_content, text) ==
    LET m == FrontMatterMatch(existing_content) IN
    IF m.matched
    THEN LET front_matter == m.group1
             updated_front_matter ==
                 IF Contains(front_matter, OcrKey)
                 THEN SubOcrField(front_matter, text)
                 ELSE front_matter \o <<"\n">> \o OcrFieldLine(text)
             repl == ExpandTemplate(FmOpen \o updated_front_matter \o FmClose)
         IN  [ok |-> repl.ok,
              text |-> IF repl.ok
                       THEN repl.text \o Slice(existing_content, m.last + 1, Len(existing_content))
                       ELSE <<>>]
    ELSE [ok |-> TRUE,
          text |-> FmOpen \o OcrFieldLine(text) \o <<"\n">> \o Dashes \o <<"\n">>
                   \o existing_content]

\* update_markdown_file(md_file, ocr_text) read, computed and wrote the file
UpdateWrites ==
    /\ pc = "update"
    /\ UpdatedContent(file, ocr_text).ok
    /\ file' = UpdatedContent(file, ocr_text).text
    /\ merges' = Append(merges, file')
    /\ pc' = "updated"
    /\ UNCHANGED <<md_path, file0, tasks, ocr_texts, yielded, ocr_text, runVars>>

\* update_markdown_file raised re.error at line 183, before line 190
UpdateRaises ==
    /\ pc = "update"
    /\ ~UpdatedContent(file, ocr_text).ok
    /\ pc' = "raised"
    /\ UNCHANGED <<md_path, file, file0, tasks, ocr_texts, yielded, ocr_text, merges, runVars>>

-----------------------------------------------------------------------------
(* extract_image_links *)

\* OVERWRITE_OCR
OVERWRITE_OCR == FALSE

\* IMAGE_EXTENSIONS, in the order the pattern's alternation tries them
IMAGE_EXTENSIONS ==
    << <<".", "p", "n", "g">>, <<".", "j", "p", "g">>, <<".", "j", "p", "e", "g">>,
       <<".", "g", "i", "f">>, <<".", "b", "m", "p">>, <<".", "t", "i", "f", "f">>,
       <<".", "t", "i", "f">> >>

UpperLetters ==
    <<"A", "B", "C", "D", "E", "F", "G", "H", "I", "J", "K", "L", "M", "N", "O", "P", "Q",
      "R", "S", "T", "U", "V", "W", "X", "Y", "Z">>
LowerLetters ==
    <<"a", "b", "c", "d", "e", "f", "g", "h", "i", "j", "k", "l", "m", "n", "o", "p", "q",
      "r", "s", "t", "u", "v", "w", "x", "y", "z">>

\* re.IGNORECASE on the ASCII letters
ToLower(c) ==
    IF \E k \in 1..Len(UpperLetters) : UpperLetters[k] = c
    THEN LowerLetters[CHOOSE k \in 1..Len(UpperLetters) : UpperLetters[k] = c]
    ELSE c

\* p (lower case) occurs in s at index i, whatever the case of s
OccursAtIgnoreCase(s, i, p) ==
    /\ i >= 1
    /\ i + Len(p) - 1 <= Len(s)
    /\ \A k \in 1..Len(p) : ToLower(s[i + k - 1]) = p[k]

LinkOpen == <<"!", "[", "[">>
LinkClose == <<"]", "]">>

\* a match of  !\[\[([^]]+?(?:\.png|...))\]\]  starting at index i: n
\* characters other than ']' (n >= 1, the least that lets the rest match), an
\* extension, then ']]'.  first..last is group 1; last = 0 is no match.
LinkMatchAt(s, i) ==
    LET from == i + Len(LinkOpen)
        fits(n) ==
            /\ \A k \in 0..(n - 1) : s[from + k] # "]"
            /\ \E e \in 1..Len(IMAGE_EXTENSIONS) :
                 /\ OccursAtIgnoreCase(s, from + n, IMAGE_EXTENSIONS[e])
                 /\ OccursAt(s, from + n + Len(IMAGE_EXTENSIONS[e]), LinkClose)
        lens == {n \in 1..(Len(s) - from) : fits(n)}
    IN  IF ~OccursAt(s, i, LinkOpen) \/ lens = {}
        THEN [first |-> 0, last |-> 0]
        ELSE LET n == CHOOSE x \in lens : \A y \in lens : x <= y
                 e == CHOOSE x \in 1..Len(IMAGE_EXTENSIONS) :
                        /\ OccursAtIgnoreCase(s, from + n, IMAGE_EXTENSIONS[x])
                        /\ OccursAt(s, from + n + Len(IMAGE_EXTENSIONS[x]), LinkClose)
             IN  [first |-> from, last |-> from + n + Len(IMAGE_EXTENSIONS[e]) - 1]

\* re.findall(pattern, content, re.IGNORECASE): group 1 of every
\* non-overlapping match, left to right
RECURSIVE FindLinksFrom(_, _)
FindLinksFrom(s, i) ==
    IF i > Len(s) THEN <<>>
    ELSE LET m == LinkMatchAt(s, i) IN
         IF m.last # 0
         THEN <<Slice(s, m.first, m.last)>> \o FindLinksFrom(s, m.last + Len(LinkClose) + 1)
         ELSE FindLinksFrom(s, i + 1)

\* a plausible slip: the "OCR:" marker is not consulted
extract_image_links_unguarded(content, overwrite) == FindLinksFrom(content, 1)

\* lines 67-77, on the text read from md_file
extract_image_links(content, overwrite) ==
    IF ~overwrite /\ Contains(content, OcrKey) THEN <<>>
    ELSE FindLinksFrom(content, 1)

-----------------------------------------------------------------------------
(* find_linked_attachment *)

\* ATTACHMENT_FOLDER: a paperclip (U+1F4CE), a space, 'manused'
ATTACHMENT_FOLDER == <<"U+1F4CE", " ", "m", "a", "n", "u", "s", "e", "d">>

\* the index of the last c in s, or 0
LastIndexOf(s, c) ==
    IF \E k \in 1..Len(s) : s[k] = c
    THEN CHOOSE k \in 1..Len(s) : s[k] = c /\ \A j \in (k + 1)..Len(s) : s[j] # c
    ELSE 0

RECURSIVE RStripSlash(_)
RStripSlash(s) ==
    IF s # <<>> /\ s[Len(s)] = "/" THEN RStripSlash(SubSeq(s, 1, Len(s) - 1)) ELSE s

\* os.path.dirname
Dirname(p) ==
    LET head == Slice(p, 1, LastIndexOf(p, "/"))
    IN  IF head # <<>> /\ \E k \in 1..Len(head) : head[k] # "/"
        THEN RStripSlash(head) ELSE head

\* os.path.basename
Basename(p) == Slice(p, LastIndexOf(p, "/") + 1, Len(p))

\* os.path.splitext(b)[0] for a name b without a separator
SplitextRoot(b) ==
    LET dot == LastIndexOf(b, ".")
    IN  IF dot > 0 /\ \E k \in 1..(dot - 1) : b[k] # "."
        THEN Slice(b, 1, dot - 1) ELSE b

\* unicodedata.normalize('NFD', s): the model's one composed character is
\* a-umlaut (U+00E4), which decomposes to 'a' and a combining diaeresis
NFD(s) ==
    Flatten([k \in 1..Len(s) |->
                IF s[k] = "U+00E4" THEN <<"a", "U+0308">> ELSE <<s[k]>>])

\* lines 221-224
find_linked_attachment(path, image_link) ==
    IF ~Contains(image_link, ATTACHMENT_FOLDER)
    THEN Dirname(path) \o <<"/">> \o ATTACHMENT_FOLDER \o <<"/">>
         \o Replace(SplitextRoot(Basename(path)), <<" ">>, <<"_">>)
         \o ResourcesMarker \o <<"/">> \o Basename(image_link)
    ELSE LET md_parts == Split(path, "/")
             normalized == {NFD(md_parts[k]) : k \in 1..Len(md_parts)}
         IN  Dirname(path) \o <<"/">>
             \o Join(SelectSeq(Split(image_link, "/"), LAMBDA i : NFD(i) \notin normalized), "/")

-----------------------------------------------------------------------------
(* process_markdown_file: the inner pool, the join and the merge *)

\* max_workers of the inner pool (line 252)
InnerWorkers == 5

Running == {i \in DOMAIN tasks : tasks[i].st = "running"}
Pending == {i \in DOMAIN tasks : tasks[i].st = "pending"}

\* lines 250-254: the links are read from the file, and one future per link is
\* submitted, on the link's resolved path
ExtractAndSubmit ==
    /\ pc = "start"
    /\ LET image_links == extract_image_links(file, OVERWRITE_OCR)
       IN  tasks' = [i \in 1..Len(image_links) |->
                        NewTask(find_linked_attachment(md_path, image_links[i]), "pending")]
    /\ pc' = "collect"
    /\ UNCHANGED <<md_path, file, file0, ocr_texts, yielded, ocr_text, merges, runVars>>

\* line 68: open(md_file) raises; process_markdown_file raises with it
ReadRaises ==
    /\ pc = "start"
    /\ pc' = "raised"
    /\ UNCHANGED <<md_path, file, file0, tasks, ocr_texts, yielded, ocr_text, merges, runVars>>

\* a free worker of the inner pool takes the oldest queued future
TaskStart ==
    /\ \E i \in Pending :
         /\ \A j \in Pending : i <= j
         /\ Cardinality(Running) < InnerWorkers
         /\ tasks' = [tasks EXCEPT ![i].st = "running"]
    /\ UNCHANGED <<docVars, runVars>>

\* lines 255-256: as_completed yields a finished future; its result is appended
Collect ==
    /\ pc = "collect"
    /\ \E i \in DOMAIN tasks \ yielded :
         /\ tasks[i].st = "done"
         /\ ocr_texts' = Append(ocr_texts, tasks[i].ret)
         /\ yielded' = yielded \cup {i}
    /\ UNCHANGED <<md_path, file, file0, tasks, pc, ocr_text, merges, runVars>>

\* a plausible slip: the loop is left once one future has been yielded
JoinFirstCompleted == yielded # {} \/ tasks = <<>>

\* the for loop over as_completed ends when every submitted future was yielded
JoinComplete == yielded = DOMAIN tasks

\* a plausible slip: str(text) of an absent result is kept
AggregatedTextWithNone(texts) ==
    Flatten([k \in 1..Len(texts) |->
                IF texts[k].none THEN <<"N", "o", "n", "e">> ELSE texts[k].text])

\* line 258
AggregatedText(texts) ==
    Flatten([k \in 1..Len(texts) |-> IF texts[k].none THEN <<>> ELSE texts[k].text])

\* lines 258-259 with a non-empty text: update_markdown_file is called
Aggregate ==
    /\ pc = "collect"
    /\ JoinComplete
    /\ AggregatedText(ocr_texts) # <<>>
    /\ ocr_text' = AggregatedText(ocr_texts)
    /\ pc' = "update"
    /\ UNCHANGED <<md_path, file, file0, tasks, ocr_texts, yielded, merges, runVars>>

\* lines 258-259 with an empty text: process_markdown_file returns
ReturnUntouched ==
    /\ pc = "collect"
    /\ JoinComplete
    /\ AggregatedText(ocr_texts) = <<>>
    /\ ocr_text' = <<>>
    /\ pc' = "returned"
    /\ UNCHANGED <<md_path, file, file0, tasks, ocr_texts, yielded, merges, runVars>>

\* the raw outputs the engine returns in the document-level model
DocRawOutputs == {<<" ">>, <<"k">>, <<"\\">>}

\* what the head of a document is drawn from: nothing, plain text, a block
\* without the field, the marker in plain text, a block with the field, a
\* block whose other field holds a backslash
DocHeads ==
    {<<>>,
     <<"k", "\n">>,
     FmOpen \o <<"k">> \o FmClose \o <<"\n">>,
     OcrKey \o <<"k", "\n">>,
     FmOpen \o OcrFieldLine(<<"k">>) \o FmClose \o <<"\n">>,
     FmOpen \o <<"k", "\\", "k">> \o FmClose \o <<"\n">>}

\* the image links of a document: one filed in the document's resource
\* folder, one filed under the attachment folder (upper-case extension)
DocLinks ==
    {LinkOpen \o <<"a", ".", "p", "n", "g">> \o LinkClose,
     LinkOpen \o <<"a", "U+0308", "/">> \o ATTACHMENT_FOLDER \o <<"/", "b", ".", "J", "P", "G">>
         \o LinkClose \o <<"\n">>}

Docs == {h \o Flatten(ls) : h \in DocHeads, ls \in SeqsUpTo(DocLinks, MaxLinks)}

MdPaths == {<<"/", "v", "/", "k", " ", "k", ".", "m", "d">>,
            <<"/", "U+00E4", "/", "n", ".", "m", "d">>}

Init ==
    /\ md_path \in MdPaths
    /\ \E d \in Docs : file = d /\ file0 = d
    /\ tasks = <<>>
    /\ ocr_texts = <<>>
    /\ yielded = {}
    /\ pc = "start"
    /\ ocr_text = <<>>
    /\ merges = <<>>
    /\ IdleRun

Next ==
    \/ ExtractAndSubmit
    \/ ReadRaises
    \/ TaskStart
    \/ OcrReturnText(DocRawOutputs)
    \/ OcrRetry
    \/ OcrGiveUp
    \/ Collect
    \/ Aggregate
    \/ ReturnUntouched
    \/ UpdateWrites
    \/ UpdateRaises

Spec == Init /\ [][Next]_vars

-----------------------------------------------------------------------------
(* main: executor.map over the listed documents on the outer pool *)

\* max_workers of the outer pool (line 289)
OuterWorkers == 5

\* the raw outputs the engine returns in the model of main
RunRawOutputs == {<<"k">>}

\* Every way process_markdown_file(md_file) can end on a document holding
\* content (lines 250-260 as one step: no other thread touches that file):
\* each link's perform_ocr returns None or a cleaned text, the results are
\* joined in completion order, and a non-empty text is merged.  raised says
\* that update_markdown_file raised, text is what the file holds afterwards.
ProcessOutcomes(content) ==
    LET image_links == extract_image_links(content, OVERWRITE_OCR)
        returned == {None} \cup {Some(Clean(r)) : r \in RunRawOutputs}
        outcome(text) ==
            IF text = <<>> THEN [raised |-> FALSE, text |-> content]
            ELSE LET u == UpdatedContent(content, text)
                 IN  IF u.ok THEN [raised |-> FALSE, text |-> u.text]
                     ELSE [raised |-> TRUE, text |-> content]
    IN  {outcome(AggregatedText(rs)) : rs \in [1..Len(image_links) -> returned]}

RunningDocs == {d \in DOMAIN fut : fut[d] = "running"}
PendingDocs == {d \in DOMAIN fut : fut[d] = "pending"}

\* a free worker of the outer pool takes the oldest queued future that was
\* not cancelled
WorkerTake ==
    /\ \E d \in PendingDocs :
         /\ \A e \in PendingDocs : d <= e
         /\ Cardinality(RunningDocs) < OuterWorkers
         /\ fut' = [fut EXCEPT ![d] = "running"]
    /\ UNCHANGED <<vault, main_pc, main_i, docVars, tasks>>

\* process_markdown_file returned on a worker
WorkerReturns ==
    /\ \E d \in RunningDocs :
         \E o \in ProcessOutcomes(vault[d]) :
            /\ ~o.raised
            /\ vault' = [vault EXCEPT ![d] = o.text]
            /\ fut' = [fut EXCEPT ![d] = "done"]
    /\ UNCHANGED <<main_pc, main_i, docVars, tasks>>

\* process_markdown_file raised on a worker: re.error out of
\* update_markdown_file; the future holds the exception
WorkerRaises ==
    /\ \E d \in RunningDocs :
         /\ \E o \in ProcessOutcomes(vault[d]) : o.raised
         /\ fut' = [fut EXCEPT ![d] = "raised"]
    /\ UNCHANGED <<vault, main_pc, main_i, docVars, tasks>>

\* process_markdown_file raised on a worker: open() of line 68 failed
WorkerReadRaises ==
    /\ \E d \in RunningDocs : fut' = [fut EXCEPT ![d] = "raised"]
    /\ UNCHANGED <<vault, main_pc, main_i, docVars, tasks>>

\* line 291: list() takes the next result of executor.map's iterator, which
\* is the result of the next future in submit order
MainNextResult ==
    /\ main_pc = "iterate"
    /\ main_i <= Len(fut)
    /\ fut[main_i] = "done"
    /\ main_i' = main_i + 1
    /\ UNCHANGED <<vault, fut, main_pc, docVars, tasks>>

\* the next future holds an exception: result() raises it inside the
\* iterator, whose finally clause cancels the futures left, last one first
MainSeesException ==
    /\ main_pc = "iterate"
    /\ main_i <= Len(fut)
    /\ fut[main_i] = "raised"
    /\ main_pc' = "cancel"
    /\ main_i' = Len(fut)
    /\ UNCHANGED <<vault, fut, docVars, tasks>>

\* the future the iterator raised at: the first one that holds an exception
RaisedAt == CHOOSE d \in DOMAIN fut : fut[d] = "raised" /\ \A e \in 1..(d - 1) : fut[e] # "raised"

\* future.cancel(): a future nobody took yet becomes cancelled, any other is
\* left as it is
MainCancel ==
    /\ main_pc = "cancel"
    /\ main_i > RaisedAt
    /\ fut' = [fut EXCEPT ![main_i] = IF @ = "pending" THEN "cancelled" ELSE @]
    /\ main_i' = main_i - 1
    /\ UNCHANGED <<vault, main_pc, docVars, tasks>>

\* the exception leaves list() and reaches the with statement's __exit__
MainCancelDone ==
    /\ main_pc = "cancel"
    /\ main_i = RaisedAt
    /\ main_pc' = "shutdown_raising"
    /\ UNCHANGED <<vault, fut, main_i, docVars, tasks>>

\* every result was taken: the with block ends
MainIterationEnds ==
    /\ main_pc = "iterate"
    /\ main_i = Len(fut) + 1
    /\ main_pc' = "shutdown"
    /\ UNCHANGED <<vault, fut, main_i, docVars, tasks>>

\* executor.shutdown(wait=True) returns once the workers have drained the
\* queue; main returns, or the exception leaves main
MainExits ==
    /\ main_pc \in {"shutdown", "shutdown_raising"}
    /\ RunningDocs = {}
    /\ PendingDocs = {}
    /\ main_pc' = IF main_pc = "shutdown" THEN "returned" ELSE "raised"
    /\ UNCHANGED <<vault, fut, main_i, docVars, tasks>>

\* a listed document with an image link
PlainDoc == LinkOpen \o <<"a", ".", "p", "n", "g">> \o LinkClose

\* a listed document whose metadata block makes update_markdown_file raise
\* re.error (bad escape \k)
BadEscapeDoc == FmOpen \o <<"k", "\\", "k">> \o FmClose \o <<"\n">> \o PlainDoc

\* lines 288-291 up to the first result: every listed document was submitted
InitRun ==
    /\ \E bad \in SUBSET (1..MaxDocs) :
         /\ Cardinality(bad) <= MaxBadDocs
         /\ vault = [d \in 1..MaxDocs |-> IF d \in bad THEN BadEscapeDoc ELSE PlainDoc]
    /\ fut = [d \in 1..MaxDocs |-> "pending"]
    /\ main_pc = "iterate"
    /\ main_i = 1
    /\ tasks = <<>>
    /\ IdleDoc

NextRun ==
    \/ WorkerTake
    \/ WorkerReturns
    \/ WorkerRaises
    \/ WorkerReadRaises
    \/ MainNextResult
    \/ MainSeesException
    \/ MainCancel
    \/ MainCancelDone
    \/ MainIterationEnds
    \/ MainExits

SpecRun == InitRun /\ [][NextRun]_vars

\* C4: a document whose processing fails does not stop the run: when main
\* ends, every listed document was processed to completion, or failed itself.
C4_FailureDoesNotAbortRun ==
    main_pc \in {"returned", "raised"} =>
        \A d \in DOMAIN fut : fut[d] \in {"done", "raised"}

-----------------------------------------------------------------------------
(* perform_ocr on its own: one call, on every path and every raw output *)

\* the characters a raw recognition output is drawn from
RawAlphabet == {" ", "\n", "\r", "\t", "\"", "\\", "a"}

RawTexts == SeqsUpTo(RawAlphabet, MaxRawLen)

PathPieces == {<<Sep>>, <<"a">>, ResourcesMarker}

Paths == {Flatten(ps) : ps \in SeqsUpTo(PathPieces, MaxPathPieces)}

InitOcr ==
    /\ \E p \in Paths : tasks = <<NewTask(p, "running")>>
    /\ IdleDoc
    /\ IdleRun

NextOcr ==
    \/ OcrReturnText(SeqsUpTo(RawAlphabet, 1))
    \/ OcrRetry
    \/ OcrGiveUp

SpecOcr == InitOcr /\ [][NextOcr]_vars

InitClean ==
    /\ \E p \in {<<"a">>, <<"a">> \o ResourcesMarker \o <<Sep, "a">>} :
         tasks = <<NewTask(p, "running")>>
    /\ IdleDoc
    /\ IdleRun

NextClean ==
    \/ OcrReturnText(RawTexts)
    \/ OcrRetry
    \/ OcrGiveUp

SpecClean == InitClean /\ [][NextClean]_vars

-----------------------------------------------------------------------------
(* update_markdown_file on its own: called twice with the same text *)

\* what a document handed to the merger is put together from
MergePieces ==
    {FmOpen, FmClose, OcrKey, <<" ", Quote, "k", Quote>>, <<"k">>, <<"\\">>, <<"\n">>}

MergeDocs == {Flatten(ps) : ps \in SeqsUpTo(MergePieces, MaxMergePieces)}

\* the non-empty texts the cleaning chain produces
MergeTexts == {Clean(r) : r \in SeqsUpTo({"k", "\\", " "}, MaxMergeRawLen)} \ {<<>>}

InitMerge ==
    /\ \E d \in MergeDocs : file = d /\ file0 = d
    /\ ocr_text \in MergeTexts
    /\ md_path = <<>>
    /\ tasks = <<>>
    /\ ocr_texts = <<>>
    /\ yielded = {}
    /\ pc = "update"
    /\ merges = <<>>
    /\ IdleRun

\* the caller merges the same text into the written document once more
MergeAgain ==
    /\ pc = "updated"
    /\ Len(merges) < 2
    /\ pc' = "update"
    /\ UNCHANGED <<md_path, file, file0, tasks, ocr_texts, yielded, ocr_text, merges, runVars>>

NextMerge ==
    \/ UpdateWrites
    \/ UpdateRaises
    \/ MergeAgain

SpecMerge == InitMerge /\ [][NextMerge]_vars

-----------------------------------------------------------------------------
(* Claims about update_markdown_file *)

\* C1: merging the same text twice yields the document the first merge
\* wrote, for every document and every non-empty text the cleaning chain can
\* produce.
C1_MergeIdempotent ==
    Len(merges) = 2 => merges[2] = merges[1]

\* a line of a metadata block that is the recognized-text field
IsOcrFieldLine(line) == OccursAt(line, 1, OcrKey)

\* the lines of a block other than the recognized-text field
OtherLines(block) ==
    SelectSeq(Split(block, "\n"), LAMBDA line : ~IsOcrFieldLine(line))

\* C2: a merge into a document that has a metadata block writes the opening
\* delimiter, a block whose lines other than the OCR field are those of the
\* original block, the closing delimiter, and then the original text after
\* the block, unchanged.
C2_OtherFieldsAndBodyKept ==
    (Len(merges) >= 1 /\ FrontMatterMatch(file0).matched) =>
        LET m0 == FrontMatterMatch(file0)
            after0 == Slice(file0, m0.last + 1, Len(file0))
            w == merges[1]
            closeAt == Len(w) - Len(after0) - Len(FmClose) + 1
        IN  /\ OccursAt(w, 1, FmOpen)
            /\ closeAt > Len(FmOpen)
            /\ OccursAt(w, closeAt, FmClose)
            /\ Slice(w, closeAt + Len(FmClose), Len(w)) = after0
            /\ OtherLines(Slice(w, Len(FmOpen) + 1, closeAt - 1)) = OtherLines(m0.group1)

\* line is the recognized-text field with the quoted value text
IsOcrFieldWithValue(line, text) ==
    /\ IsOcrFieldLine(line)
    /\ LET k == SkipWhitespace(line, Len(OcrKey) + 1)
       IN  Slice(line, k, Len(line)) = <<Quote>> \o text \o <<Quote>>

\* C6: a merge of a non-empty text into a document whose metadata block holds
\* 'OCR:' leaves the block with the recognized-text field equal to that text.
C6_ExistingFieldReplaced ==
    (/\ Len(merges) >= 1
     /\ FrontMatterMatch(file0).matched
     /\ Contains(FrontMatterMatch(file0).group1, OcrKey)) =>
        LET m1 == FrontMatterMatch(merges[1])
        IN  /\ m1.matched
            /\ \E n \in 1..Len(Split(m1.group1, "\n")) :
                 IsOcrFieldWithValue(Split(m1.group1, "\n")[n], ocr_text)

-----------------------------------------------------------------------------
(* Claims about perform_ocr *)

ClaimedClean(raw) ==
    LET s1 == Strip(raw)
        s2 == Replace(Replace(s1, <<"\n">>, <<" ">>), <<"\r">>, <<" ">>)
        s3 == Replace(s2, <<"\t">>, <<" ">>)
        s4 == Replace(s3, <<" ", " ">>, <<" ">>)
        s5 == Replace(s4, <<"\"">>, <<"'">>)
    IN  Replace(s5, <<"\\">>, <<"\\", "\\">>)

\* C10: the text perform_ocr returns equals: trim; newline and carriage return
\* each to one space; tab to space; each pair of spaces to one space in one
\* pass; double quote to single quote; each backslash doubled.
C10_CleaningChain ==
    \A i \in DOMAIN tasks :
        (tasks[i].st = "done" /\ ~tasks[i].ret.none) =>
            tasks[i].ret.text = ClaimedClean(tasks[i].raw)

-----------------------------------------------------------------------------
(* Claims about process_markdown_file *)

\* process_markdown_file has returned or raised
Finished == pc \in {"returned", "updated", "raised"}

\* C3: a document whose text holds 'OCR:' is never written while the override
\* flag is false: no link is extracted, no recognition is invoked, and the
\* file keeps its text.
C3_MarkedDocumentUntouched ==
    (~OVERWRITE_OCR /\ Contains(file0, OcrKey)) =>
        /\ tasks = <<>>
        /\ file = file0
        /\ merges = <<>>
        /\ pc \in {"start", "collect", "returned", "raised"}

\* C3 witness: a marked document that holds an image link was processed to
\* its end
C3_Witness ==
    /\ Contains(file0, OcrKey)
    /\ FindLinksFrom(file0, 1) # <<>>
    /\ pc = "returned"

\* C5: update_markdown_file starts only after every future submitted for the
\* document has finished.
C5_WriteAfterJoin ==
    (pc \in {"update", "updated"} \/ merges # <<>> \/ file # file0) =>
        \A i \in DOMAIN tasks : tasks[i].st = "done"

\* C5 witness: a document with two attachments was written
C5_Witness ==
    /\ pc = "updated"
    /\ Len(tasks) = 2
    /\ file # file0

\* the block update_markdown_file prepends for text
PrependedBlock(text) == FmOpen \o OcrFieldLine(text) \o <<"\n">> \o Dashes \o <<"\n">>

\* C7 as claimed: a document without a metadata block that holds exactly one
\* image link, whose attachment did not fail, ends as a block holding the
\* cleaned recognition output followed by the original text.
C7_OneAttachmentPrepended ==
    (/\ pc \in {"returned", "updated"}
     /\ ~FrontMatterMatch(file0).matched
     /\ Len(FindLinksFrom(file0, 1)) = 1
     /\ \A i \in DOMAIN tasks : ~tasks[i].ret.none) =>
        /\ Len(tasks) = 1
        /\ file = PrependedBlock(tasks[1].ret.text) \o file0

\* C7 as amended: the same, for a document whose text does not hold 'OCR:'
\* and whose attachment's cleaned recognition output is not empty.
C7_OneAttachmentPrependedAmended ==
    (/\ Finished
     /\ ~FrontMatterMatch(file0).matched
     /\ ~Contains(file0, OcrKey)
     /\ Len(FindLinksFrom(file0, 1)) = 1
     /\ Len(tasks) = 1
     /\ ~tasks[1].ret.none
     /\ tasks[1].ret.text # <<>>) =>
        /\ pc = "updated"
        /\ file = PrependedBlock(tasks[1].ret.text) \o file0

\* C7 witness: such a document, with text before its link, was written
C7_Witness ==
    /\ pc = "updated"
    /\ ~FrontMatterMatch(file0).matched
    /\ ~OccursAt(file0, 1, LinkOpen)
    /\ Len(tasks) = 1
    /\ tasks[1].ret = Some(<<"k">>)
    /\ file # file0

\* C8: a document all of whose attachments end with an absent result is not
\* written: update_markdown_file is not called and the file keeps its text.
C8_AllFailedUntouched ==
    (/\ tasks # <<>>
     /\ \A i \in DOMAIN tasks : tasks[i].st = "done" /\ tasks[i].ret.none) =>
        /\ pc \in {"collect", "returned"}
        /\ file = file0
        /\ merges = <<>>

\* C8 witness: the only attachment was still missing after the retry, and
\* process_markdown_file returned
C8_Witness ==
    /\ pc = "returned"
    /\ Len(tasks) = 1
    /\ Len(tasks[1].calls) = 2
    /\ tasks[1].calls[2].out = "notfound"
    /\ tasks[1].ret = None

=============================================================================
